---------------------------- MODULE Spec2Model ----------------------------
(***************************************************************************)
(* Lrgen: an LR(1) table generator (src/main.rs).                          *)
(*                                                                         *)
(* The model follows one run of main(): the grammar is loaded (Symbols,    *)
(* Grammar), the first state is closed, and the worklist loop expands one  *)
(* dequeued item set per step, filling actions, yytable and yycheck.       *)
(*                                                                         *)
(* A symbol name is the sequence of its characters, each a one-character   *)
(* string: "id" is <<"i", "d">>.  Rust's HashMap iterates in an order      *)
(* that depends on a per-map random seed; every such order is a            *)
(* nondeterministic choice of the model.                                   *)
(*                                                                         *)
(* Spec is the run of main().  FairSpec adds that main, a sequential       *)
(* thread, keeps executing.  TypeSpec is one call of get_symbol_type,      *)
(* one character of the name per step, in either build profile.            *)
(***************************************************************************)
EXTENDS Integers, Sequences, FiniteSets, TLC

VARIABLES
    raw_grammar_data,   \* the deserialised input: [start, rules]
    raw_iter,           \* iteration order of the HashMap raw_grammar_data.rules
    symbols,            \* Symbols {terminals, non_terminals} (+ panicked flag)
    grammar,            \* Grammar {start, rules, number_of_rules}
    rules_iter,         \* iteration order of the HashMap grammar.rules
    yyr1, yyr2, yybase, yytable, yycheck,
    actions,            \* Vec<HashMap<&str, Action>>
    states,             \* HashMap<BTreeSet<Item>, usize>
    states_stack,       \* VecDeque<BTreeSet<Item>>
    expanded,           \* history: the item sets dequeued so far, in order
    pc,                 \* position of main()
    call                \* a call of get_symbol_type on its own: its locals

vars == <<raw_grammar_data, raw_iter, symbols, grammar, rules_iter,
          yyr1, yyr2, yybase, yytable, yycheck,
          actions, states, states_stack, expanded, pc, call>>

-----------------------------------------------------------------------------
(* Generic helpers for Rust collections *)

\* All orders in which a HashMap with key set S can be iterated.
Orders(S) ==
    {o \in [1..Cardinality(S) -> S] : \A i, j \in 1..Cardinality(S) : o[i] = o[j] => i = j}

\* HashMap::insert(k, v): the old value, if any, is replaced.
MapInsert(m, k, v) == [x \in (DOMAIN m) \cup {k} |-> IF x = k THEN v ELSE m[x]]

EmptyMap == [x \in {} |-> 0]

Last(s) == s[Len(s)]

-----------------------------------------------------------------------------
(* Characters and strings *)

\* Code points of the characters that occur in the modelled grammars.
CharCode ==
    ("$" :> 36) @@ ("'" :> 39) @@ ("+" :> 43) @@
    ("A" :> 65) @@ ("B" :> 66) @@ ("E" :> 69) @@ ("S" :> 83) @@ ("T" :> 84) @@
    ("_" :> 95) @@
    ("a" :> 97) @@ ("b" :> 98) @@ ("c" :> 99) @@ ("e" :> 101) @@ ("i" :> 105) @@
    ("n" :> 110) @@ ("p" :> 112)

is_uppercase(ch) == CharCode[ch] \in 65..90
is_lowercase(ch) == CharCode[ch] \in 97..122

\* Ord for &str: byte-wise lexicographic, a proper prefix is smaller.
RECURSIVE StrCmp(_, _)
StrCmp(s, t) ==
    IF s = <<>> /\ t = <<>> THEN 0
    ELSE IF s = <<>> THEN -1
    ELSE IF t = <<>> THEN 1
    ELSE IF CharCode[Head(s)] < CharCode[Head(t)] THEN -1
    ELSE IF CharCode[Head(s)] > CharCode[Head(t)] THEN 1
    ELSE StrCmp(Tail(s), Tail(t))

\* Ord for Vec<&str>: lexicographic over the elements.
RECURSIVE VecCmp(_, _)
VecCmp(u, v) ==
    IF u = <<>> /\ v = <<>> THEN 0
    ELSE IF u = <<>> THEN -1
    ELSE IF v = <<>> THEN 1
    ELSE LET c == StrCmp(Head(u), Head(v)) IN
         IF c # 0 THEN c ELSE VecCmp(Tail(u), Tail(v))

-----------------------------------------------------------------------------
(* get_symbol_type *)

\* i8 arithmetic as the release build computes it (two's complement wrap).
I8(n) == ((n + 128) % 256) - 128

RECURSIVE CountCased(_, _, _)
CountCased(symbol, uppercase, lowercase) ==
    IF symbol = <<>> THEN <<uppercase, lowercase>>
    ELSE LET ch == Head(symbol) IN
         IF ch = "_" THEN CountCased(Tail(symbol), uppercase, lowercase)
         ELSE IF is_uppercase(ch) THEN CountCased(Tail(symbol), I8(uppercase + 1), lowercase)
         ELSE IF is_lowercase(ch) THEN CountCased(Tail(symbol), uppercase, I8(lowercase + 1))
         ELSE CountCased(Tail(symbol), uppercase, lowercase)

\* A classification that takes a name without any cased letter for an error.
SymbolTypeOfStrict(uppercase, lowercase) ==
    IF uppercase = 0 /\ lowercase = 0 THEN "Error"
    ELSE IF lowercase = 0 THEN "NonTerminal"
    ELSE IF uppercase = 0 THEN "Terminal"
    ELSE "Error"

\* The end of get_symbol_type: the classification by the two counters.
SymbolTypeOf(uppercase, lowercase) ==
    LET diff == I8(uppercase - lowercase)
    IN  IF diff = uppercase THEN "NonTerminal"
        ELSE IF diff = I8(-lowercase) THEN "Terminal"
        ELSE "Error"

get_symbol_type(symbol) ==
    SymbolTypeOf(CountCased(symbol, 0, 0)[1], CountCased(symbol, 0, 0)[2])

\* The locals of get_symbol_type(symbol) when it is entered: `rest` is what
\* symbol.chars() has left.  overflow_checks tells the build: with overflow
\* checks `+= 1` panics at i8::MAX, without them it wraps.
NewCall(symbol, overflow_checks) ==
    [symbol |-> symbol, rest |-> symbol, uppercase |-> 0, lowercase |-> 0,
     overflow_checks |-> overflow_checks, returned |-> "Running"]

NoCall == NewCall(<<>>, FALSE)

-----------------------------------------------------------------------------
(* Symbols *)

NewSymbols == [terminals |-> {}, non_terminals |-> {}, panicked |-> FALSE]

add_symbol(self, symbol, non_terminal_expected) ==
    IF self.panicked THEN self
    ELSE LET t == symbol \in self.terminals
             n == symbol \in self.non_terminals
         IN  IF ~t /\ ~n
             THEN CASE get_symbol_type(symbol) = "Terminal" ->
                         IF non_terminal_expected
                         THEN [self EXCEPT !.panicked = TRUE]
                         ELSE [self EXCEPT !.terminals = @ \cup {symbol}]
                    [] get_symbol_type(symbol) = "NonTerminal" ->
                         [self EXCEPT !.non_terminals = @ \cup {symbol}]
                    [] OTHER -> [self EXCEPT !.panicked = TRUE]
             ELSE IF t /\ n THEN [self EXCEPT !.panicked = TRUE]
             ELSE self

RECURSIVE AddDerivation(_, _)
AddDerivation(self, derivation) ==
    IF derivation = <<>> THEN self
    ELSE AddDerivation(add_symbol(self, Head(derivation), FALSE), Tail(derivation))

RECURSIVE AddDerivations(_, _)
AddDerivations(self, rules) ==
    IF rules = <<>> THEN self
    ELSE AddDerivations(AddDerivation(self, Head(rules)), Tail(rules))

RECURSIVE AddRules(_, _, _)
AddRules(self, raw, order) ==
    IF order = <<>> THEN self
    ELSE AddRules(AddDerivations(add_symbol(self, Head(order), TRUE), raw.rules[Head(order)]),
                  raw, Tail(order))

\* Symbols::from_raw_grammar_data, the rules visited in the order `order`.
SymbolsFromRaw(raw, order) == AddRules(NewSymbols, raw, order)

-----------------------------------------------------------------------------
(* Grammar *)

RECURSIVE FlattenOne(_, _)
FlattenOne(lhs, rules) ==
    IF rules = <<>> THEN <<>>
    ELSE <<[lhs |-> lhs, rhs |-> Head(rules)]>> \o FlattenOne(lhs, Tail(rules))

\* flatten_rules: every (lhs, rhs) pair, the rules visited in the order `order`.
RECURSIVE FlattenRules(_, _)
FlattenRules(raw, order) ==
    IF order = <<>> THEN <<>>
    ELSE FlattenOne(Head(order), raw.rules[Head(order)]) \o FlattenRules(raw, Tail(order))

\* grammar.rules: lhs -> Vec<(index + 1, rhs)>, in the order of flatten_rules.
GroupRules(flat) ==
    [lhs \in {flat[k].lhs : k \in 1..Len(flat)} |->
        LET Pick(k) == flat[k].lhs = lhs
            idx == SelectSeq([k \in 1..Len(flat) |-> k], Pick)
        IN  [j \in 1..Len(idx) |-> [rule |-> idx[j], rhs |-> flat[idx[j]].rhs]]]

\* Grammar::from_raw_grammar_data.
GrammarFromRaw(raw, order) ==
    LET flat == FlattenRules(raw, order)
    IN  [start |-> raw.start, rules |-> GroupRules(flat), number_of_rules |-> Len(flat)]

-----------------------------------------------------------------------------
(* Action and Item *)

Shift(state)  == [kind |-> "Shift",  arg |-> state]
Reduce(rule)  == [kind |-> "Reduce", arg |-> rule]
Goto(state)   == [kind |-> "Goto",   arg |-> state]
Accept        == [kind |-> "Accept", arg |-> 0]

Dollar == <<"$">>
Prime  == <<"'">>

\* Item::new
NewItem(symbol, derivation, lookahead, rule) ==
    [symbol |-> symbol, derivation |-> derivation, position |-> 0,
     lookahead |-> lookahead, rule |-> rule]

\* Item::advanced
advanced(item) == [item EXCEPT !.position = @ + 1]

\* derive(Ord) on Item: the fields compared in declaration order.
ItemCmp(a, b) ==
    LET c1 == StrCmp(a.symbol, b.symbol)
        c2 == VecCmp(a.derivation, b.derivation)
        c3 == IF a.position < b.position THEN -1 ELSE IF a.position > b.position THEN 1 ELSE 0
        c4 == StrCmp(a.lookahead, b.lookahead)
        c5 == IF a.rule < b.rule THEN -1 ELSE IF a.rule > b.rule THEN 1 ELSE 0
    IN  IF c1 # 0 THEN c1 ELSE IF c2 # 0 THEN c2 ELSE IF c3 # 0 THEN c3
        ELSE IF c4 # 0 THEN c4 ELSE c5

\* Iteration order of a BTreeSet<Item>: ascending.
RECURSIVE SortItems(_)
SortItems(items) ==
    IF items = {} THEN <<>>
    ELSE LET least == CHOOSE x \in items : \A y \in items : ItemCmp(x, y) <= 0
         IN  <<least>> \o SortItems(items \ {least})

None == [some |-> FALSE]

\* An extended_lookahead that takes the symbol that follows the non-terminal
\* as the lookahead, whatever its kind.
extended_lookahead_next(item, syms) ==
    IF item.position >= Len(item.derivation) THEN None
    ELSE LET next_symbol == item.derivation[item.position + 1] IN
         IF next_symbol \notin syms.non_terminals THEN None
         ELSE [some |-> TRUE, symbol |-> next_symbol,
               lookahead |-> Head(SubSeq(item.derivation, item.position + 2,
                                         Len(item.derivation)) \o <<item.lookahead>>)]

\* Item::extended_lookahead: the non-terminal after the dot and the lookahead
\* of the items it is expanded with, or None.
extended_lookahead(item, syms) ==
    IF item.position >= Len(item.derivation) THEN None
    ELSE LET next_symbol == item.derivation[item.position + 1] IN
         IF next_symbol \notin syms.non_terminals THEN None
         ELSE LET rest == SubSeq(item.derivation, item.position + 2, Len(item.derivation))
                  IsTerminal(s) == s \in syms.terminals
                  terminal_symbols == SelectSeq(rest, IsTerminal) \o <<item.lookahead>>
              IN  [some |-> TRUE, symbol |-> next_symbol, lookahead |-> Head(terminal_symbols)]

\* An inner loop that inserts the new items without pushing them on to_close:
\* the items it adds are never expanded themselves.
RECURSIVE ExtendWithNoPush(_, _, _, _)
ExtendWithNoPush(items, to_close, rules, extension) ==
    IF rules = <<>> THEN <<items, to_close>>
    ELSE ExtendWithNoPush(items \cup {NewItem(extension.symbol, Head(rules).rhs,
                                              extension.lookahead, Head(rules).rule)},
                          to_close, Tail(rules), extension)

\* The inner for loop of close_items over the rules of extension.symbol.
RECURSIVE ExtendWith(_, _, _, _)
ExtendWith(items, to_close, rules, extension) ==
    IF rules = <<>> THEN <<items, to_close>>
    ELSE LET new_item == NewItem(extension.symbol, Head(rules).rhs,
                                 extension.lookahead, Head(rules).rule)
         IN  IF new_item \notin items
             THEN ExtendWith(items \cup {new_item}, Append(to_close, new_item),
                             Tail(rules), extension)
             ELSE ExtendWith(items, to_close, Tail(rules), extension)

\* The while loop of close_items: to_close is a stack, popped from the end.
RECURSIVE CloseLoop(_, _, _, _)
CloseLoop(items, to_close, syms, gram) ==
    IF to_close = <<>> THEN items
    ELSE LET item == Last(to_close)
             rest == SubSeq(to_close, 1, Len(to_close) - 1)
             extension == extended_lookahead(item, syms)
         IN  IF extension.some /\ extension.symbol \in DOMAIN gram.rules
             THEN LET r == ExtendWith(items, rest, gram.rules[extension.symbol], extension)
                  IN  CloseLoop(r[1], r[2], syms, gram)
             ELSE CloseLoop(items, rest, syms, gram)

\* The number of times `while let Some(item) = to_close.pop()` pops.
RECURSIVE ClosePops(_, _, _, _)
ClosePops(items, to_close, syms, gram) ==
    IF to_close = <<>> THEN 0
    ELSE LET item == Last(to_close)
             rest == SubSeq(to_close, 1, Len(to_close) - 1)
             extension == extended_lookahead(item, syms)
         IN  IF extension.some /\ extension.symbol \in DOMAIN gram.rules
             THEN LET r == ExtendWith(items, rest, gram.rules[extension.symbol], extension)
                  IN  1 + ClosePops(r[1], r[2], syms, gram)
             ELSE 1 + ClosePops(items, rest, syms, gram)

close_items(items, syms, gram) == CloseLoop(items, SortItems(items), syms, gram)

\* start_item and first_state of main.
StartItem(gram) == NewItem(Prime, <<gram.start>>, Dollar, 0)

FirstState(syms, gram) == close_items({StartItem(gram)}, syms, gram)

-----------------------------------------------------------------------------
(* The worklist loop of main: one dequeued state *)

\* yytable.push / yycheck.push for a completed item that is reduced: nothing
\* is pushed while yytable is empty, nor when the last slot already holds it.
PushReduce(acc, rule, current_state_index) ==
    IF Len(acc.yytable) > 0 /\ Len(acc.yycheck) > 0
       /\ (Last(acc.yytable) # -rule \/ Last(acc.yycheck) # current_state_index)
    THEN [acc EXCEPT !.yytable = Append(@, -rule),
                     !.yycheck = Append(@, current_state_index)]
    ELSE acc

\* The body of `for item in &state`.
ItemStep(acc, item, state, current_state_index, start_item) ==
    IF item.position < Len(item.derivation)
    THEN LET next_symbol == item.derivation[item.position + 1]
             new_item == advanced(item)
         IN  IF next_symbol \in DOMAIN acc.new_states
             THEN [acc EXCEPT !.new_states[next_symbol] = @ \cup {new_item}]
             ELSE [acc EXCEPT !.new_states = MapInsert(@, next_symbol, {new_item})]
    ELSE LET done_start == [start_item EXCEPT !.position = Len(start_item.derivation)]
         IN  IF done_start \in state /\ item.lookahead = Dollar
             THEN [acc EXCEPT !.new_actions = MapInsert(@, item.lookahead, Accept),
                              !.yytable = Append(@, 0),
                              !.yycheck = Append(@, current_state_index)]
             ELSE PushReduce([acc EXCEPT !.new_actions =
                                  MapInsert(@, item.lookahead, Reduce(item.rule))],
                             item.rule, current_state_index)

RECURSIVE ProcessItems(_, _, _, _, _)
ProcessItems(acc, todo, state, current_state_index, start_item) ==
    IF todo = <<>> THEN acc
    ELSE ProcessItems(ItemStep(acc, Head(todo), state, current_state_index, start_item),
                      Tail(todo), state, current_state_index, start_item)

\* A registration without the contains_key test: a set dequeued a second time
\* is inserted again and its index replaced.
RegisterStateAlways(registry, state, current_state_index) ==
    MapInsert(registry, state, current_state_index)

\* `if !states.contains_key(&state) { states.insert(state, current_state_index) }`
RegisterState(registry, state, current_state_index) ==
    IF state \in DOMAIN registry THEN registry
    ELSE MapInsert(registry, state, current_state_index)

\* The index given to a successor that the registry does not hold; `stack` is
\* states_stack after the push_back.
FreshIndex(registry, stack) == Cardinality(DOMAIN registry) + Len(stack) - 1

\* The action recorded for a successor.
SuccessorAction(syms, symbol, index) ==
    IF symbol \in syms.non_terminals THEN Goto(index) ELSE Shift(index)

\* A successor loop that keeps the entry a completed item has already made.
RecordSuccessorKeep(new_actions, symbol, action) ==
    IF symbol \in DOMAIN new_actions THEN new_actions
    ELSE MapInsert(new_actions, symbol, action)

\* new_actions.insert(symbol, ...) in the successor loop.
RecordSuccessor(new_actions, symbol, action) == MapInsert(new_actions, symbol, action)

\* The body of `for (symbol, mut state) in new_states` once the successor
\* `state` is closed: its index is looked up or it is queued, the action is
\* recorded and a slot is pushed.
RecordState(acc, symbol, state, registry, current_state_index, syms) ==
    IF state \in DOMAIN registry
    THEN [states_stack |-> acc.states_stack,
          new_actions  |-> RecordSuccessor(acc.new_actions, symbol,
                                           SuccessorAction(syms, symbol, registry[state])),
          yytable      |-> Append(acc.yytable, registry[state]),
          yycheck      |-> Append(acc.yycheck, current_state_index)]
    ELSE [states_stack |-> Append(acc.states_stack, state),
          new_actions  |-> RecordSuccessor(acc.new_actions, symbol,
                               SuccessorAction(syms, symbol,
                                   FreshIndex(registry, Append(acc.states_stack, state)))),
          yytable      |-> Append(acc.yytable,
                                  FreshIndex(registry, Append(acc.states_stack, state))),
          yycheck      |-> Append(acc.yycheck, current_state_index)]

\* The body of `for (symbol, mut state) in new_states`.
SuccessorStep(acc, symbol, new_states, registry, current_state_index, syms, gram) ==
    RecordState(acc, symbol, close_items(new_states[symbol], syms, gram),
                registry, current_state_index, syms)

RECURSIVE ProcessSuccessors(_, _, _, _, _, _, _)
ProcessSuccessors(acc, order, new_states, registry, current_state_index, syms, gram) ==
    IF order = <<>> THEN acc
    ELSE ProcessSuccessors(
             SuccessorStep(acc, Head(order), new_states, registry,
                           current_state_index, syms, gram),
             Tail(order), new_states, registry, current_state_index, syms, gram)

-----------------------------------------------------------------------------
(* Input grammars *)

N(ch) == <<ch>>

\* S -> a
TrivialGrammar ==
    [start |-> N("S"),
     rules |-> (N("S") :> << <<N("a")>> >>)]

\* E -> E + T | T ;  T -> n
ArithmeticGrammar ==
    [start |-> N("E"),
     rules |-> (N("E") :> << <<N("E"), N("+"), N("T")>>, <<N("T")>> >>) @@
               (N("T") :> << <<N("n")>> >>)]

\* E -> E p E | n   (ambiguous: shift/reduce on p)
AmbiguousGrammar ==
    [start |-> N("E"),
     rules |-> (N("E") :> << <<N("E"), N("p"), N("E")>>, <<N("n")>> >>)]

\* S -> A | B ;  A -> a ;  B -> a   (reduce/reduce on $)
ReduceReduceGrammar ==
    [start |-> N("S"),
     rules |-> (N("S") :> << <<N("A")>>, <<N("B")>> >>) @@
               (N("A") :> << <<N("a")>> >>) @@
               (N("B") :> << <<N("a")>> >>)]

\* S -> A b ;  A -> (empty) | a
EpsilonGrammar ==
    [start |-> N("S"),
     rules |-> (N("S") :> << <<N("A"), N("b")>> >>) @@
               (N("A") :> << <<>>, <<N("a")>> >>)]

\* S -> a B | b B ;  B -> c   (two states share the successor on c)
SharedSuccessorGrammar ==
    [start |-> N("S"),
     rules |-> (N("S") :> << <<N("a"), N("B")>>, <<N("b"), N("B")>> >>) @@
               (N("B") :> << <<N("c")>> >>)]

\* S -> A B ;  A -> a ;  B -> b   (a non-terminal follows the expanded one)
SequenceGrammar ==
    [start |-> N("S"),
     rules |-> (N("S") :> << <<N("A"), N("B")>> >>) @@
               (N("A") :> << <<N("a")>> >>) @@
               (N("B") :> << <<N("b")>> >>)]

\* S -> a ;  a -> b   (a lowercase name as a left-hand side)
TerminalLhsGrammar ==
    [start |-> N("S"),
     rules |-> (N("S") :> << <<N("a")>> >>) @@
               (N("a") :> << <<N("b")>> >>)]

\* S -> A   (A has no production)
UndefinedGrammar ==
    [start |-> N("S"),
     rules |-> (N("S") :> << <<N("A")>> >>)]

\* S -> S $ | a   (the name of the end-of-input sentinel used as a symbol)
DollarGrammar ==
    [start |-> N("S"),
     rules |-> (N("S") :> << <<N("S"), N("$")>>, <<N("a")>> >>)]

\* S -> i S e S | i S | a   (dangling else)
DanglingElseGrammar ==
    [start |-> N("S"),
     rules |-> (N("S") :> << <<N("i"), N("S"), N("e"), N("S")>>,
                             <<N("i"), N("S")>>, <<N("a")>> >>)]

\* S -> a | a   (the same production declared twice)
DuplicateGrammar ==
    [start |-> N("S"),
     rules |-> (N("S") :> << <<N("a")>>, <<N("a")>> >>)]

\* S -> S a | a   (left recursion)
ListGrammar ==
    [start |-> N("S"),
     rules |-> (N("S") :> << <<N("S"), N("a")>>, <<N("a")>> >>)]

GrammarList ==
    << TrivialGrammar, ArithmeticGrammar, AmbiguousGrammar, ReduceReduceGrammar,
       EpsilonGrammar, SharedSuccessorGrammar, SequenceGrammar, TerminalLhsGrammar,
       UndefinedGrammar, DollarGrammar, DanglingElseGrammar, ListGrammar,
       DuplicateGrammar >>

\* How many grammars of GrammarList are given to the generator.
NumGrammars == 12

Grammars == {GrammarList[k] : k \in 1..(IF NumGrammars < Len(GrammarList)
                                        THEN NumGrammars ELSE Len(GrammarList))}

-----------------------------------------------------------------------------
(* main *)

EmptyGrammar == [start |-> <<>>, rules |-> EmptyMap, number_of_rules |-> 0]

Init ==
    /\ raw_grammar_data \in Grammars
    /\ raw_iter \in Orders(DOMAIN raw_grammar_data.rules)
    /\ symbols = NewSymbols
    /\ grammar = EmptyGrammar
    /\ rules_iter = <<>>
    /\ yyr1 = <<>> /\ yyr2 = <<>> /\ yybase = <<>> /\ yytable = <<>> /\ yycheck = <<>>
    /\ actions = <<>>
    /\ states = EmptyMap
    /\ states_stack = <<>>
    /\ expanded = <<>>
    /\ pc = "symbols"
    /\ call = NoCall

\* Symbols::from_raw_grammar_data; a panic ends the run.
LoadSymbols ==
    /\ pc = "symbols"
    /\ symbols' = SymbolsFromRaw(raw_grammar_data, raw_iter)
    /\ pc' = IF symbols'.panicked THEN "panic" ELSE "grammar"
    /\ UNCHANGED call
    /\ UNCHANGED <<raw_grammar_data, raw_iter, grammar, rules_iter, yyr1, yyr2, yybase,
                   yytable, yycheck, actions, states, states_stack, expanded>>

\* Grammar::from_raw_grammar_data.  get_symbol cannot panic here: add_symbol
\* has put every name of the grammar into exactly one of the two sets.
LoadGrammar ==
    /\ pc = "grammar"
    /\ grammar' = GrammarFromRaw(raw_grammar_data, raw_iter)
    /\ rules_iter' \in Orders(DOMAIN grammar'.rules)
    /\ pc' = "first"
    /\ UNCHANGED call
    /\ UNCHANGED <<raw_grammar_data, raw_iter, symbols, yyr1, yyr2, yybase,
                   yytable, yycheck, actions, states, states_stack, expanded>>

\* The loop that fills yyr1 and yyr2, grammar.rules visited in the order `order`.
RECURSIVE FillYyr(_, _, _)
FillYyr(gram, order, lhs_number) ==
    IF order = <<>> THEN [yyr1 |-> <<>>, yyr2 |-> <<>>]
    ELSE LET derivations == gram.rules[Head(order)]
             rest == FillYyr(gram, Tail(order), lhs_number + 1)
         IN  [yyr1 |-> [k \in 1..Len(derivations) |-> lhs_number] \o rest.yyr1,
              yyr2 |-> [k \in 1..Len(derivations) |-> Len(derivations[k].rhs)] \o rest.yyr2]

\* first_state, the empty tables and the yyr1/yyr2 loop.
Prepare ==
    /\ pc = "first"
    /\ states_stack' = <<FirstState(symbols, grammar)>>
    /\ yyr1' = FillYyr(grammar, rules_iter, 0).yyr1
    /\ yyr2' = FillYyr(grammar, rules_iter, 0).yyr2
    /\ pc' = "loop"
    /\ UNCHANGED call
    /\ UNCHANGED <<raw_grammar_data, raw_iter, symbols, grammar, rules_iter, yybase,
                   yytable, yycheck, actions, states, expanded>>

\* The item sets and symbols of one iteration of the loop.
CurrentStateIndex == Cardinality(DOMAIN states)

ItemsPass ==
    ProcessItems([new_states |-> EmptyMap, new_actions |-> EmptyMap,
                  yytable |-> yytable, yycheck |-> yycheck],
                 SortItems(Head(states_stack)), Head(states_stack),
                 CurrentStateIndex, StartItem(grammar))

\* What one iteration leaves behind: the registry, and the queue, arrays and
\* action row after the successor loop.
RowOf(registry, succ) ==
    [states |-> registry, states_stack |-> succ.states_stack,
     yytable |-> succ.yytable, yycheck |-> succ.yycheck,
     actions |-> Append(actions, succ.new_actions)]

\* The second half of an iteration: the state is registered and the
\* successors in new_states are visited in the order `order`.
ExpandWith(items, registry, order) ==
    RowOf(registry,
          ProcessSuccessors([states_stack |-> Tail(states_stack),
                             new_actions |-> items.new_actions,
                             yytable |-> items.yytable, yycheck |-> items.yycheck],
                            order, items.new_states, registry, CurrentStateIndex,
                            symbols, grammar))

\* What one iteration of the loop leaves behind when the HashMap new_states
\* is visited in the order `order`.
Expand(order) ==
    ExpandWith(ItemsPass, RegisterState(states, Head(states_stack), CurrentStateIndex), order)

Commit(next) ==
    /\ states' = next.states
    /\ states_stack' = next.states_stack
    /\ yytable' = next.yytable
    /\ yycheck' = next.yycheck
    /\ actions' = next.actions

\* One iteration of `while let Some(state) = states_stack.pop_front()`.
ExpandState ==
    /\ pc = "loop"
    /\ states_stack # <<>>
    /\ \E order \in Orders(DOMAIN ItemsPass.new_states) : Commit(Expand(order))
    /\ expanded' = Append(expanded, Head(states_stack))
    /\ UNCHANGED call
    /\ UNCHANGED <<raw_grammar_data, raw_iter, symbols, grammar, rules_iter,
                   yyr1, yyr2, yybase, pc>>

\* A loop written as `loop { let state = states_stack.pop_front().unwrap(); .. }`:
\* the empty queue is a panic, not the end of the loop.
FinishPanics ==
    /\ pc = "loop"
    /\ states_stack = <<>>
    /\ pc' = "panic"
    /\ UNCHANGED call
    /\ UNCHANGED <<raw_grammar_data, raw_iter, symbols, grammar, rules_iter,
                   yyr1, yyr2, yybase, yytable, yycheck, actions, states,
                   states_stack, expanded>>

\* The queue is empty: the states, the actions and the arrays are printed.
Finish ==
    /\ pc = "loop"
    /\ states_stack = <<>>
    /\ pc' = "done"
    /\ UNCHANGED call
    /\ UNCHANGED <<raw_grammar_data, raw_iter, symbols, grammar, rules_iter,
                   yyr1, yyr2, yybase, yytable, yycheck, actions, states,
                   states_stack, expanded>>

Next == LoadSymbols \/ LoadGrammar \/ Prepare \/ ExpandState \/ Finish

Spec == Init /\ [][Next]_vars

\* main seen through pc and the dequeue history: a step of Next either moves
\* pc forward or dequeues the head of states_stack.
Progress ==
    \/ /\ pc \in {"symbols", "grammar", "first", "loop"}
       /\ pc' \in {"grammar", "first", "loop", "done", "panic"} \ {pc}
       /\ expanded' = expanded
    \/ /\ pc = "loop" /\ states_stack # <<>>
       /\ pc' = pc
       /\ expanded' = Append(expanded, Head(states_stack))

\* main is one sequential thread that runs until it returns or panics: as
\* long as a statement remains to execute, pc or the history advances.
FairSpec == Spec /\ WF_<<pc, expanded>>(Progress)

-----------------------------------------------------------------------------
(* get_symbol_type called on its own, one character per step *)

\* The longest name made of the characters of NameChars.
MaxNameLen == 3

NameChars == {"A", "a", "_", "+"}

\* i8::MAX: the largest count the counters of get_symbol_type hold.
I8Max == 127

Repeat(ch, n) == [k \in 1..n |-> ch]

\* Names at and past the limit of the i8 counters.
LongNames ==
    {Repeat("a", I8Max), Repeat("A", I8Max),
     Repeat("a", I8Max - 1) \o <<"A">>, Repeat("A", I8Max - 1) \o <<"a">>,
     Repeat("a", 63) \o <<"_", "+">> \o Repeat("A", 64),
     Repeat("_", 2) \o Repeat("a", I8Max) \o <<"+">>,
     Repeat("a", I8Max + 1), Repeat("A", I8Max + 1),
     Repeat("a", 64) \o Repeat("A", 64)}

Names == UNION {[1..n -> NameChars] : n \in 0..MaxNameLen} \cup LongNames

\* `uppercase += 1` or `lowercase += 1` is about to overflow.
Overflows(c) ==
    \/ is_uppercase(Head(c.rest)) /\ c.uppercase = I8Max
    \/ is_lowercase(Head(c.rest)) /\ c.lowercase = I8Max

TypeInit ==
    /\ \E symbol \in Names, overflow_checks \in BOOLEAN :
           call = NewCall(symbol, overflow_checks)
    /\ pc = "count"
    /\ raw_grammar_data = [start |-> <<>>, rules |-> EmptyMap]
    /\ raw_iter = <<>>
    /\ symbols = NewSymbols
    /\ grammar = EmptyGrammar
    /\ rules_iter = <<>>
    /\ yyr1 = <<>> /\ yyr2 = <<>> /\ yybase = <<>> /\ yytable = <<>> /\ yycheck = <<>>
    /\ actions = <<>>
    /\ states = EmptyMap
    /\ states_stack = <<>>
    /\ expanded = <<>>

\* One iteration of `for ch in symbol.chars()`.
CountChar ==
    /\ pc = "count"
    /\ call.rest # <<>>
    /\ IF call.overflow_checks /\ call.rest[1] # "_" /\ Overflows(call)
       THEN /\ call' = [call EXCEPT !.returned = "Panic"]
            /\ pc' = "returned"
       ELSE /\ call' = [call EXCEPT
                           !.uppercase = CountCased(<<call.rest[1]>>, call.uppercase,
                                                    call.lowercase)[1],
                           !.lowercase = CountCased(<<call.rest[1]>>, call.uppercase,
                                                    call.lowercase)[2],
                           !.rest = Tail(@)]
            /\ pc' = pc
    /\ UNCHANGED <<raw_grammar_data, raw_iter, symbols, grammar, rules_iter,
                   yyr1, yyr2, yybase, yytable, yycheck, actions, states,
                   states_stack, expanded>>

\* The loop is over: diff is computed and the type returned.
ReturnType ==
    /\ pc = "count"
    /\ call.rest = <<>>
    /\ call' = [call EXCEPT !.returned = SymbolTypeOf(call.uppercase, call.lowercase)]
    /\ pc' = "returned"
    /\ UNCHANGED <<raw_grammar_data, raw_iter, symbols, grammar, rules_iter,
                   yyr1, yyr2, yybase, yytable, yycheck, actions, states,
                   states_stack, expanded>>

TypeNext == CountChar \/ ReturnType

TypeSpec == TypeInit /\ [][TypeNext]_vars

-----------------------------------------------------------------------------
(* Vocabulary of the properties *)

\* The action rows built so far; row r was built from the item set expanded[r].
Rows == 1..Len(actions)

Completed(item) == item.position >= Len(item.derivation)

\* The symbols that follow a dot in the item set I.
AfterDot(I) == {item.derivation[item.position + 1] : item \in {x \in I : ~Completed(x)}}

\* The items of I with X after the dot, the dot advanced over X.
Advance(I, X) ==
    {advanced(item) : item \in {x \in I : ~Completed(x) /\ x.derivation[x.position + 1] = X}}

\* GOTO(I, X) as main computes it.
GOTO(I, X) == close_items(Advance(I, X), symbols, grammar)

\* [S' -> S ., $]
DoneStartItem == [StartItem(grammar) EXCEPT !.position = 1]

Loaded == pc \in {"first", "loop", "done"}
Built  == pc \in {"loop", "done"}

-----------------------------------------------------------------------------
(* C1 *)

\* C1: when the worklist loop has ended, for every dequeued item set I and
\* every symbol X after a dot in I, the index recorded in I's action row as
\* Shift(j) or Goto(j) under X is the index the registry holds for GOTO(I, X).
C1_SuccessorIndexIsRegistered ==
    pc = "done" =>
        \A r \in Rows : \A X \in AfterDot(expanded[r]) :
            /\ X \in DOMAIN actions[r]
            /\ actions[r][X].kind \in {"Shift", "Goto"}
            /\ GOTO(expanded[r], X) \in DOMAIN states
            /\ actions[r][X].arg = states[GOTO(expanded[r], X)]

-----------------------------------------------------------------------------
(* C2 *)

\* C2: production ids, state indices and table contents are the same whatever
\* order the hash maps are iterated in: the loaded grammar does not depend on
\* the order in which raw_grammar_data.rules is visited, and an iteration of
\* the worklist loop leaves the same registry, queue, action row and arrays
\* for every order in which new_states is visited.
C2_Deterministic ==
    /\ Loaded =>
          \A o \in Orders(DOMAIN raw_grammar_data.rules) :
              GrammarFromRaw(raw_grammar_data, o) = grammar
    /\ (pc = "loop" /\ states_stack # <<>>) =>
          \A o1, o2 \in Orders(DOMAIN ItemsPass.new_states) : Expand(o1) = Expand(o2)

-----------------------------------------------------------------------------
(* C3 *)

\* The productions of the loaded grammar: (lhs, rhs, rule).
Productions ==
    UNION {{[lhs |-> A, rhs |-> grammar.rules[A][k].rhs, rule |-> grammar.rules[A][k].rule] :
               k \in 1..Len(grammar.rules[A])} : A \in DOMAIN grammar.rules}

IsNonTerminal(X) == X \in symbols.non_terminals

\* The non-terminals that derive the empty string: least fixed point.
RECURSIVE NullableFrom(_)
NullableFrom(Nl) ==
    LET more == {p.lhs : p \in {q \in Productions :
                                   \A k \in 1..Len(q.rhs) : q.rhs[k] \in Nl}}
    IN  IF more \subseteq Nl THEN Nl ELSE NullableFrom(Nl \cup more)

Nullable == NullableFrom({})

\* The terminals that begin a string derived from seq, given the FIRST sets F
\* of the non-terminals and the nullable non-terminals Nl.
RECURSIVE FirstOfSeq(_, _, _)
FirstOfSeq(seq, F, Nl) ==
    IF seq = <<>> THEN {}
    ELSE LET X == Head(seq) IN
         IF IsNonTerminal(X)
         THEN (IF X \in DOMAIN F THEN F[X] ELSE {})
              \cup (IF X \in Nl THEN FirstOfSeq(Tail(seq), F, Nl) ELSE {})
         ELSE {X}

RECURSIVE FirstFrom(_, _)
FirstFrom(F, Nl) ==
    LET G == [A \in DOMAIN F |->
                 F[A] \cup UNION {FirstOfSeq(p.rhs, F, Nl) :
                                     p \in {q \in Productions : q.lhs = A}}]
    IN  IF G = F THEN F ELSE FirstFrom(G, Nl)

FirstSets == FirstFrom([A \in DOMAIN grammar.rules |-> {}], Nullable)

\* FIRST(beta a) for a sequence beta and a lookahead terminal a.
FIRST(beta, a, F, Nl) ==
    FirstOfSeq(beta, F, Nl)
        \cup (IF \A k \in 1..Len(beta) : beta[k] \in Nl THEN {a} ELSE {})

\* The items [B -> . gamma, b] that the item [A -> alpha . B beta, a] asks for.
Asked(item, F, Nl) ==
    IF Completed(item) \/ ~IsNonTerminal(item.derivation[item.position + 1]) THEN {}
    ELSE LET B == item.derivation[item.position + 1]
             beta == SubSeq(item.derivation, item.position + 2, Len(item.derivation))
         IN  {NewItem(B, p.rhs, b, p.rule) :
                 p \in {q \in Productions : q.lhs = B},
                 b \in FIRST(beta, item.lookahead, F, Nl)}

RECURSIVE ClosureFrom(_, _, _)
ClosureFrom(J, F, Nl) ==
    LET more == UNION {Asked(item, F, Nl) : item \in J}
    IN  IF more \subseteq J THEN J ELSE ClosureFrom(J \cup more, F, Nl)

\* CLOSURE(I): the least closed superset of I.
CLOSURE(I) == ClosureFrom(I, FirstSets, Nullable)

\* C3: every result of close_items in the run (the first state and the
\* successor of every dequeued item set on every symbol after a dot) is the
\* least set J that contains the argument I and, for every item
\* [A -> alpha . B beta, a] in J with B non-terminal, every production
\* B -> gamma and every terminal b in FIRST(beta a), the item [B -> . gamma, b].
C3_CloseItemsIsLeastClosure ==
    Built =>
        /\ FirstState(symbols, grammar) = CLOSURE({StartItem(grammar)})
        /\ \A r \in Rows : \A X \in AfterDot(expanded[r]) :
               GOTO(expanded[r], X) = CLOSURE(Advance(expanded[r], X))

-----------------------------------------------------------------------------
(* C4 *)

\* The terminals on which the item set I has both a completed item (as its
\* lookahead) and an item with the terminal after the dot.
ShiftReduceTerminals(I) ==
    {t \in symbols.terminals :
        /\ t \in AfterDot(I)
        /\ \E item \in I : Completed(item) /\ item.lookahead = t}

-----------------------------------------------------------------------------
(* C5 *)

\* The rules of the completed items of I with lookahead t.
ReducibleRules(I, t) == {item.rule : item \in {x \in I : Completed(x) /\ x.lookahead = t}}

SetMin(S) == CHOOSE x \in S : \A y \in S : x <= y

\* C5: in the action row of every dequeued item set that holds two completed
\* items with the same lookahead t and different production ids, with no
\* shift on t (and t not the accept cell), the action under t is the Reduce
\* by the lowest of those production ids.
C5_LowestReduceWins ==
    \A r \in Rows : \A t \in {item.lookahead : item \in expanded[r]} :
        ( /\ Cardinality(ReducibleRules(expanded[r], t)) >= 2
          /\ t \notin AfterDot(expanded[r])
          /\ ~(DoneStartItem \in expanded[r] /\ t = Dollar) )
        => /\ t \in DOMAIN actions[r]
           /\ actions[r][t] = Reduce(SetMin(ReducibleRules(expanded[r], t)))

-----------------------------------------------------------------------------
(* C6 *)

\* The conflicts main reports.  HashMap::insert returns the value it replaces;
\* main drops it, keeps no list of conflicts and prints none.
ConflictReport == {}

\* The actions assigned to the cell (row r, symbol t) while row r was built.
Assigned(r, t) ==
    {(IF DoneStartItem \in expanded[r] /\ t = Dollar THEN Accept ELSE Reduce(item.rule)) :
        item \in {x \in expanded[r] : Completed(x) /\ x.lookahead = t}}
    \cup (IF t \in AfterDot(expanded[r]) THEN {actions[r][t]} ELSE {})

\* The cell (row r, t) was assigned two different actions, shifts or reduces.
Conflicting(r, t) ==
    /\ Cardinality(Assigned(r, t)) >= 2
    /\ \A a \in Assigned(r, t) : a.kind \in {"Shift", "Reduce"}

\* C6: once all states are processed, every cell that was assigned two
\* different actions (shift/reduce or reduce/reduce) is in the reported
\* conflicts, with its state, its terminal and the competing actions.
C6_ConflictsReported ==
    pc = "done" =>
        \A r \in Rows : \A t \in {item.lookahead : item \in expanded[r]} :
            Conflicting(r, t) =>
                \E c \in ConflictReport :
                    c.state = r - 1 /\ c.terminal = t /\ c.actions = Assigned(r, t)

-----------------------------------------------------------------------------
(* C7 *)

\* The rows that hold an Accept.
AcceptRows == {r \in Rows : \E X \in DOMAIN actions[r] : actions[r][X] = Accept}

\* C7: when the worklist loop has ended every recorded action is a Shift,
\* Reduce, Goto or Accept; exactly one row holds an Accept, only under `$`,
\* and that row was built from the item set that holds [S' -> S ., $].
C7_AcceptOnce ==
    pc = "done" =>
        /\ \A r \in Rows : \A X \in DOMAIN actions[r] :
               /\ actions[r][X].kind \in {"Shift", "Reduce", "Goto", "Accept"}
               /\ actions[r][X] = Accept => (X = Dollar /\ DoneStartItem \in expanded[r])
        /\ Cardinality(AcceptRows) = 1

-----------------------------------------------------------------------------
(* C8 *)

\* All symbols of the run, numbered in ascending order from 0 (the code
\* itself numbers no symbols).
AllSymbols == symbols.terminals \cup symbols.non_terminals \cup {Dollar}

SymbolId(X) == Cardinality({Y \in AllSymbols : StrCmp(Y, X) < 0})

\* The entry of the dense table for (row r, symbol X).
Dense(r, X) == IF X \in DOMAIN actions[r] THEN actions[r][X] ELSE [kind |-> "Error", arg |-> 0]

\* The value a yytable slot holds for an action: the target of a shift or
\* goto, minus the production of a reduce, 0 for accept.
Encode(action) ==
    CASE action.kind = "Reduce" -> 0 - action.arg
      [] action.kind = "Accept" -> 0
      [] OTHER -> action.arg

\* Reading the compacted arrays for state i and symbol X: slot
\* yybase[i] + id(X), valid when yycheck there names i.  (Vecs are 0-based,
\* sequences 1-based.)
Covered(i, X) ==
    /\ i + 1 <= Len(yybase)
    /\ yybase[i + 1] + SymbolId(X) + 1 <= Len(yytable)
    /\ yybase[i + 1] + SymbolId(X) + 1 <= Len(yycheck)
    /\ yycheck[yybase[i + 1] + SymbolId(X) + 1] = i

\* C8: when the worklist loop has ended, the compacted arrays read with the
\* emitted bases give, for every state and symbol, the action of the dense
\* table, and no slot for a cell without action.
C8_CompactionRoundTrip ==
    pc = "done" =>
        \A r \in Rows : \A X \in AllSymbols :
            IF Dense(r, X).kind = "Error" THEN ~Covered(r - 1, X)
            ELSE /\ Covered(r - 1, X)
                 /\ yytable[yybase[r] + SymbolId(X) + 1] = Encode(Dense(r, X))

-----------------------------------------------------------------------------
(* C9 *)

\* Vec indexing: v[p] of the code is the element p + 1 of the sequence.
InVec(v, p) == p + 1 <= Len(v)
VecAt(v, p) == v[p + 1]

\* C9: for every production id p of the loaded grammar, yyr2[p] is the
\* length of the right-hand side of production p, and yyr1 gives two
\* productions the same value exactly when they have the same left-hand side.
C9_Yyr1Yyr2ByProductionId ==
    Built =>
        /\ \A p \in Productions :
               /\ InVec(yyr2, p.rule) /\ VecAt(yyr2, p.rule) = Len(p.rhs)
               /\ InVec(yyr1, p.rule)
        /\ \A p, q \in Productions :
               (InVec(yyr1, p.rule) /\ InVec(yyr1, q.rule)) =>
                   ((VecAt(yyr1, p.rule) = VecAt(yyr1, q.rule)) <=> (p.lhs = q.lhs))

-----------------------------------------------------------------------------
(* C10 *)

\* The grammar uses as a left-hand side a name that get_symbol_type
\* classifies as a terminal.
HasTerminalLhs ==
    \E lhs \in DOMAIN raw_grammar_data.rules : get_symbol_type(lhs) = "Terminal"

\* C10: loading a grammar with a terminal name as a left-hand side fails,
\* whatever order the rules are visited in.
C10_TerminalLhsRejected ==
    (HasTerminalLhs /\ pc # "symbols") => pc = "panic"

-----------------------------------------------------------------------------
(* C11 *)

\* The names on the right-hand sides of the input grammar.
RhsSymbols ==
    UNION {UNION {{raw_grammar_data.rules[lhs][k][j] :
                      j \in 1..Len(raw_grammar_data.rules[lhs][k])} :
                  k \in 1..Len(raw_grammar_data.rules[lhs])} :
           lhs \in DOMAIN raw_grammar_data.rules}

\* Some name on a right-hand side is classified as a non-terminal and is the
\* left-hand side of no production.
HasUndefinedNonTerminal ==
    \E X \in RhsSymbols :
        /\ get_symbol_type(X) = "NonTerminal"
        /\ X \notin DOMAIN raw_grammar_data.rules

\* C11: a grammar with a non-terminal on a right-hand side that is the
\* left-hand side of no production ends in an error: the run never gets to
\* the first state, and no state, action row or table slot is built from it.
C11_UndefinedNonTerminalRejected ==
    HasUndefinedNonTerminal =>
        /\ ~Loaded
        /\ states = EmptyMap /\ states_stack = <<>> /\ actions = <<>>
        /\ yyr1 = <<>> /\ yyr2 = <<>> /\ yytable = <<>> /\ yycheck = <<>>

-----------------------------------------------------------------------------
(* C12 *)

\* The id the loaded grammar gives the production lhs -> rhs.
RuleOf(lhs, rhs) == (CHOOSE p \in Productions : p.lhs = lhs /\ p.rhs = rhs).rule

\* The items [lhs -> rhs with the dot at position, a] for the lookaheads a in las.
ItemsOf(lhs, rhs, position, las) ==
    {[NewItem(lhs, rhs, a, RuleOf(lhs, rhs)) EXCEPT !.position = position] : a \in las}

\* The canonical LR(1) collection of E' -> E; E -> E + T | T; T -> n.
ArithmeticCanonical ==
    LET E == N("E")  T == N("T")  plus == N("+")  n == N("n")
        both == {Dollar, plus}
    IN  { {StartItem(grammar)} \cup ItemsOf(E, <<E, plus, T>>, 0, both)
              \cup ItemsOf(E, <<T>>, 0, both) \cup ItemsOf(T, <<n>>, 0, both),
          {DoneStartItem} \cup ItemsOf(E, <<E, plus, T>>, 1, both),
          ItemsOf(E, <<T>>, 1, both),
          ItemsOf(T, <<n>>, 1, both),
          ItemsOf(E, <<E, plus, T>>, 2, both) \cup ItemsOf(T, <<n>>, 0, both),
          ItemsOf(E, <<E, plus, T>>, 3, both) }

\* C12: for E -> E + T | T; T -> n with start E, when the loop has ended
\* exactly 6 states are registered, their item sets are the canonical LR(1)
\* item sets (lookaheads `$` and `+`), the row of the state reached from
\* state 0 on E has a Shift under `+` and Accept under `$`, and no cell was
\* assigned two different actions.
C12_ArithmeticTables ==
    (raw_grammar_data = ArithmeticGrammar /\ pc = "done") =>
        /\ Cardinality(DOMAIN states) = 6
        /\ DOMAIN states = ArithmeticCanonical
        /\ N("E") \in DOMAIN actions[1]
        /\ actions[1][N("E")].arg + 1 \in Rows
        /\ LET row == actions[actions[1][N("E")].arg + 1]
           IN  /\ N("+") \in DOMAIN row /\ row[N("+")].kind = "Shift"
               /\ Dollar \in DOMAIN row /\ row[Dollar] = Accept
        /\ \A r \in Rows : \A t \in AllSymbols : Cardinality(Assigned(r, t)) <= 1

-----------------------------------------------------------------------------
(* C13 *)

\* The indices the registry holds.
RegisteredIndices == {states[I] : I \in DOMAIN states}

\* C13: in every reachable state the registry is a bijection between the
\* registered item sets and the indices 0..n-1: no two distinct item sets
\* share an index, and the indices in use are exactly 0..n-1 for n
\* registered sets.  (That equal item sets have one index is what a map is.)
C13_RegistryIsBijection ==
    /\ \A I, J \in DOMAIN states : states[I] = states[J] => I = J
    /\ RegisteredIndices = 0..(Cardinality(DOMAIN states) - 1)

\* The loop has ended, and an item set was dequeued a second time, after it
\* had been registered.
C13_Witness ==
    /\ pc = "done"
    /\ Cardinality(DOMAIN states) >= 3
    /\ Len(expanded) > Cardinality(DOMAIN states)

-----------------------------------------------------------------------------
(* C14 *)

\* The successor indices recorded in row r as Shift(j) or Goto(j).
SuccessorIndices(r) ==
    {actions[r][X].arg : X \in {Y \in DOMAIN actions[r] : actions[r][Y].kind \in {"Shift", "Goto"}}}

\* The indices reached from the indices in R along recorded successors; the
\* row of index i is actions[i] (element i + 1 of the sequence).
RECURSIVE ReachableFrom(_)
ReachableFrom(R) ==
    LET more == UNION {SuccessorIndices(i + 1) : i \in {j \in R : j + 1 \in Rows}}
    IN  IF more \subseteq R THEN R ELSE ReachableFrom(R \cup more)

\* C14: when the worklist loop has ended, every recorded successor index is
\* the index of a registered state, and every registered index is reached
\* from index 0 along the recorded Shift/Goto successors.
C14_SuccessorsRegisteredAndReachable ==
    pc = "done" =>
        /\ \A r \in Rows : SuccessorIndices(r) \subseteq RegisteredIndices
        /\ RegisteredIndices \subseteq ReachableFrom({0})

-----------------------------------------------------------------------------
(* C15 *)

\* Every step that changes pc or the history is a step of Progress.
StepsAreProgress == [][Progress]_<<pc, expanded>>

\* The pops of the call close_items(I).
Pops(I) == ClosePops(I, SortItems(I), symbols, grammar)

\* The calls of close_items made by the latest iteration of the loop (by the
\* construction of the first state before the first iteration) pop each item
\* of their result once: as many pops as the result has items.
PopsFinite ==
    IF actions = <<>>
    THEN Pops({StartItem(grammar)}) = Cardinality(FirstState(symbols, grammar))
    ELSE \A X \in AfterDot(Last(expanded)) :
             Pops(Advance(Last(expanded), X)) = Cardinality(GOTO(Last(expanded), X))

\* C15: once a grammar is loaded the worklist loop ends, with the pending
\* queue empty, after finitely many dequeues, also when an item set is
\* enqueued more than once before it is registered; and every call of
\* close_items ends after finitely many pops (one per item of its result).
C15_LoopTerminates ==
    /\ [](Built => PopsFinite)
    /\ Loaded ~> (pc = "done" /\ states_stack = <<>>)

\* The loop has ended in a run where an item set was dequeued twice, and a
\* call of close_items has added items to its argument.
C15_Witness ==
    /\ pc = "done"
    /\ \E i, j \in 1..Len(expanded) : i < j /\ expanded[i] = expanded[j]
    /\ Pops({StartItem(grammar)}) > 1

-----------------------------------------------------------------------------
(* C16 *)

\* Item sets given to close_items: the arguments of the calls made for the
\* latest dequeued set (for the first state before the first iteration),
\* every set of one or two items of that set, and the set itself.
CloseArguments ==
    IF actions = <<>> THEN {{StartItem(grammar)}, FirstState(symbols, grammar)}
    ELSE {Advance(Last(expanded), X) : X \in AfterDot(Last(expanded))}
         \cup {{x, y} : x, y \in Last(expanded)}
         \cup {Last(expanded)}

Closed(I) == close_items(I, symbols, grammar)

\* C16: close_items is idempotent: closing the result of close_items again
\* gives the same set, for every item set I.
C16_CloseItemsIdempotent ==
    Built => \A I \in CloseArguments : Closed(Closed(I)) = Closed(I)

\* The loop has ended and one of the arguments is not closed: close_items
\* adds at least two items to it.
C16_Witness ==
    /\ pc = "done"
    /\ \E I \in CloseArguments : Closed(I) # I /\ Cardinality(Closed(I)) >= Cardinality(I) + 2

-----------------------------------------------------------------------------
(* C17 *)

\* The item sets of the current state of the run: the first state, the
\* closed successors of the latest dequeued set, the pending queue, the
\* registry and the sets dequeued so far.
ItemSetsOfRun ==
    (IF Built THEN {FirstState(symbols, grammar)} ELSE {})
    \cup (IF actions = <<>> THEN {}
          ELSE {GOTO(Last(expanded), X) : X \in AfterDot(Last(expanded))})
    \cup {states_stack[k] : k \in 1..Len(states_stack)}
    \cup DOMAIN states
    \cup {expanded[k] : k \in 1..Len(expanded)}

\* C17: every item of the first state, of a closed successor set, of the
\* pending queue and of the registry has the lookahead `$` or a symbol of
\* the terminals set; no item has a non-terminal as its lookahead.
C17_LookaheadsAreTerminals ==
    \A I \in ItemSetsOfRun : \A item \in I :
        /\ item.lookahead \in {Dollar} \cup symbols.terminals
        /\ item.lookahead # Dollar => item.lookahead \notin symbols.non_terminals

\* The loop has ended and the registry holds an item that the closure added
\* with a lookahead other than `$`.
C17_Witness ==
    /\ pc = "done"
    /\ \E I \in DOMAIN states : \E item \in I :
           /\ item.position = 0 /\ item.symbol # Prime
           /\ item.lookahead \in symbols.terminals \ {Dollar}

-----------------------------------------------------------------------------
(* C18 *)

\* current_state_index of the iteration that built row r, the value it
\* pushed on yycheck: the number of sets registered before it, which are the
\* distinct sets dequeued before it.
RowIndex(r) == Cardinality({expanded[k] : k \in 1..(r - 1)})

\* C18: when the worklist loop has ended, every item set was dequeued once,
\* actions has one row per registered state, and row i and the yycheck
\* values i were computed from the item set registered with index i.
C18_OneRowPerRegisteredState ==
    pc = "done" =>
        /\ \A i, j \in Rows : expanded[i] = expanded[j] => i = j
        /\ Len(actions) = Cardinality(DOMAIN states)
        /\ \A r \in Rows :
               /\ expanded[r] \in DOMAIN states
               /\ states[expanded[r]] = r - 1
               /\ states[expanded[r]] = RowIndex(r)

-----------------------------------------------------------------------------
(* C19 *)

\* yytable and yycheck hold a slot with the given values.  (The two vectors
\* are pushed together and have the same length.)
HasSlot(value, check) ==
    \E k \in 1..Len(yytable) : k <= Len(yycheck) /\ yytable[k] = value /\ yycheck[k] = check

\* C19: for every Reduce(p) in an action row, built for a dequeued state
\* with index i, yytable and yycheck hold a slot with yytable[k] = -p and
\* yycheck[k] = i, also when the reduce was recorded while yytable was empty.
C19_ReduceHasSlot ==
    \A r \in Rows : \A t \in DOMAIN actions[r] :
        actions[r][t].kind = "Reduce" => HasSlot(0 - actions[r][t].arg, RowIndex(r))

-----------------------------------------------------------------------------
(* C20 *)

\* The uppercase and lowercase letters of a name, counted without a limit.
NumUpper(symbol) == Cardinality({k \in 1..Len(symbol) : is_uppercase(symbol[k])})
NumLower(symbol) == Cardinality({k \in 1..Len(symbol) : is_lowercase(symbol[k])})
NumCased(symbol) == NumUpper(symbol) + NumLower(symbol)

\* C20: for a name with fewer than 128 cased letters get_symbol_type returns
\* Terminal exactly when the name has a lowercase and no uppercase letter,
\* Error exactly when it has both, and NonTerminal otherwise, in either
\* build; a name without any cased letter is NonTerminal and add_symbol does
\* not reject it.  (For the short names the call made in one piece, as
\* add_symbol makes it, returns the same.)
C20_SymbolTypeByCase ==
    (pc = "returned" /\ NumCased(call.symbol) < 128) =>
        /\ call.returned = "Terminal"
               <=> (NumLower(call.symbol) >= 1 /\ NumUpper(call.symbol) = 0)
        /\ call.returned = "Error"
               <=> (NumLower(call.symbol) >= 1 /\ NumUpper(call.symbol) >= 1)
        /\ call.returned = "NonTerminal" <=> NumLower(call.symbol) = 0
        /\ Len(call.symbol) <= MaxNameLen =>
               call.returned = get_symbol_type(call.symbol)
        /\ NumCased(call.symbol) = 0 =>
               /\ call.returned = "NonTerminal"
               /\ Len(call.symbol) <= MaxNameLen =>
                      /\ ~add_symbol(NewSymbols, call.symbol, TRUE).panicked
                      /\ ~add_symbol(NewSymbols, call.symbol, FALSE).panicked

\* A name of symbols only, without a cased letter, has been classified, in
\* the build with overflow checks.
C20_Witness ==
    /\ pc = "returned"
    /\ call.overflow_checks
    /\ Len(call.symbol) >= 1
    /\ \A k \in 1..Len(call.symbol) : call.symbol[k] = "+"
    /\ call.returned = "NonTerminal"

=============================================================================
